---- MODULE Spec2Model ----
(***************************************************************************)
(* nvml-tune (src/main.rs): the command line's fan-curve parser            *)
(* (parse_fan_curve, parse_pair) on character sequences, and main: the     *)
(* NVML session, the one-shot setters, the Ctrl+C bridge and the fan       *)
(* controller loop with its f64 arithmetic.                                *)
(***************************************************************************)
EXTENDS Integers, Sequences, FiniteSets, TLC

(***************************************************************************)
(* Bounds of the model.                                                    *)
(***************************************************************************)
\* points (or malformed items) in one --fan-curve argument
MaxPoints == 3
\* iterations of the controller loop that are followed
MaxIter == 2
\* Ctrl+C signals delivered in one run
MaxInterrupts == 2
\* the highest temperature the sensor reports
MaxTemp == 110

(***************************************************************************)
(* Text: a &str is a sequence of one-character strings.                    *)
(***************************************************************************)
Drop(s, n) == SubSeq(s, n + 1, Len(s))

StartsWith(s, c) == Len(s) > 0 /\ s[1] = c

\* char::is_ascii_digit
IsAsciiDigit(c) == c \in {"0", "1", "2", "3", "4", "5", "6", "7", "8", "9"}

DigitVal(c) ==
  CASE c = "0" -> 0 [] c = "1" -> 1 [] c = "2" -> 2 [] c = "3" -> 3
    [] c = "4" -> 4 [] c = "5" -> 5 [] c = "6" -> 6 [] c = "7" -> 7
    [] c = "8" -> 8 [] c = "9" -> 9

\* take_while(|c| c.is_ascii_digit()): the length of the longest digit prefix
\* (zero characters is a match too)
RECURSIVE TakeWhileDigit(_)
TakeWhileDigit(s) ==
  IF Len(s) > 0 /\ IsAsciiDigit(s[1]) THEN 1 + TakeWhileDigit(Tail(s)) ELSE 0

(***************************************************************************)
(* str::parse::<u32>: checked_mul(10) then checked_add(digit) per digit,   *)
(* Err on the empty string and on overflow past 4294967295.  The running   *)
(* value is kept as hi * 100000 + lo so that the 32-bit limit is exact.    *)
(***************************************************************************)
U32Fits(hi, lo) == hi < 42949 \/ (hi = 42949 /\ lo <= 67295)

RECURSIVE ParseDigits(_, _, _)
ParseDigits(s, hi, lo) ==
  IF s = <<>> THEN [ok |-> TRUE, hi |-> hi, lo |-> lo]
  ELSE LET v   == lo * 10 + DigitVal(s[1])
           lo2 == v % 100000
           hi2 == hi * 10 + v \div 100000
       IN  IF U32Fits(hi2, lo2) THEN ParseDigits(Tail(s), hi2, lo2)
           ELSE [ok |-> FALSE, hi |-> 0, lo |-> 0]

ParseU32(s) ==
  IF s = <<>> THEN [ok |-> FALSE, hi |-> 0, lo |-> 0] ELSE ParseDigits(s, 0, 0)

\* n > 100 for a parsed u32
Over100(n) == n.hi > 0 \/ n.lo > 100

(***************************************************************************)
(* parse_pair (lines 161-186).  kind is "Ok" (rest, point), "Error"        *)
(* (nom::Err::Error) or "Panic" (the unwrap of a failed integer parse).    *)
(***************************************************************************)
NomError == [kind |-> "Error", rest |-> <<>>, point |-> <<0, 0>>]
NomPanic == [kind |-> "Panic", rest |-> <<>>, point |-> <<0, 0>>]
NomOk(rest, point) == [kind |-> "Ok", rest |-> rest, point |-> point]

parse_pair(i) ==
  IF ~StartsWith(i, "(") THEN NomError
  ELSE
    LET i1    == Tail(i)
        nT    == TakeWhileDigit(i1)
        tempS == SubSeq(i1, 1, nT)
        i2    == Drop(i1, nT)
    IN
    IF ~StartsWith(i2, ":") THEN NomError
    ELSE
      LET i3    == Tail(i2)
          nD    == TakeWhileDigit(i3)
          dutyS == SubSeq(i3, 1, nD)
          i4    == Drop(i3, nD)
      IN
      IF ~StartsWith(i4, ")") THEN NomError
      ELSE
        LET rest == Tail(i4)
            temp == ParseU32(tempS)
            duty == ParseU32(dutyS)
        IN
        IF ~temp.ok THEN NomPanic
        ELSE IF Over100(temp) THEN NomError
        ELSE IF ~duty.ok THEN NomPanic
        ELSE IF Over100(duty) THEN NomError
        ELSE NomOk(rest, <<temp.lo, duty.lo>>)

\* alt((terminated(parse_pair, tag(",")), parse_pair)) (line 191): the pair with
\* its comma, else the pair alone; an Error of both is an Error, a panic in the
\* first alternative ends the process before the second is tried
AltPair(i) ==
  LET first == parse_pair(i) IN
  IF first.kind = "Ok" /\ StartsWith(first.rest, ",")
  THEN NomOk(Tail(first.rest), first.point)
  ELSE first

(***************************************************************************)
(* The body of the while-let loop (lines 194-200): a point whose temp is   *)
(* already in the curve replaces the old one unless its duty is smaller.   *)
(***************************************************************************)
\* curve.iter().position(|(temp, _)| *temp == point.0): 0 stands for None
Position(curve, temp) ==
  IF \E k \in 1..Len(curve) : curve[k][1] = temp
  THEN CHOOSE k \in 1..Len(curve) :
         /\ curve[k][1] = temp
         /\ \A j \in 1..(k - 1) : curve[j][1] # temp
  ELSE 0

\* Vec::remove(idx)
Remove(curve, idx) == SubSeq(curve, 1, idx - 1) \o SubSeq(curve, idx + 1, Len(curve))

\* PushPoint without the removal of the point it replaces
PushPointKeepsOld(curve, point) ==
  LET idx == Position(curve, point[1]) IN
  IF idx = 0 THEN Append(curve, point)
  ELSE IF point[2] < curve[idx][2] THEN curve
  ELSE Append(curve, point)

PushPoint(curve, point) ==
  LET idx == Position(curve, point[1]) IN
  IF idx = 0 THEN Append(curve, point)
  ELSE IF point[2] < curve[idx][2] THEN curve
  ELSE Append(Remove(curve, idx), point)

(***************************************************************************)
(* Lines 209-217: the stable sort by temp and the two anchors.             *)
(***************************************************************************)
RECURSIVE InsertByKey(_, _)
InsertByKey(sorted, p) ==
  IF sorted = <<>> THEN <<p>>
  ELSE IF p[1] < sorted[1][1] THEN <<p>> \o sorted
  ELSE <<sorted[1]>> \o InsertByKey(Tail(sorted), p)

RECURSIVE SortByKey(_)
SortByKey(curve) ==
  IF curve = <<>> THEN <<>>
  ELSE InsertByKey(SortByKey(SubSeq(curve, 1, Len(curve) - 1)), curve[Len(curve)])

LowerAnchor(curve) == IF curve[1][1] # 0 THEN <<(<<0, 0>>)>> \o curve ELSE curve

UpperAnchor(curve) ==
  IF curve[Len(curve)][1] < 100 THEN Append(curve, <<100, 100>>) ELSE curve

\* a curve sorted and left without its anchors (what C18 rules out)
SortedOnly(c) == SortByKey(c)

Canonical(curve) == UpperAnchor(LowerAnchor(SortByKey(curve)))

(***************************************************************************)
(* f64 arithmetic of lines 107-108.  A positive double is m * 2^e with m a *)
(* 53-bit significand, most significant bit first; zero has no bits.       *)
(* Every operation is the exact result rounded to nearest, ties to even.   *)
(***************************************************************************)
F64Zero == [m |-> <<>>, e |-> 0]

\* the binary digits of n < 2^30, most significant first
BitLen(n) == CHOOSE k \in 0..30 : n < 2^k /\ (k = 0 \/ 2^(k - 1) <= n)

NatBits(n) == [k \in 1..BitLen(n) |-> (n \div 2^(BitLen(n) - k)) % 2]

\* n < 2^w as exactly w binary digits
PadBits(n, w) == [k \in 1..w |-> (n \div 2^(w - k)) % 2]

RECURSIVE BitsNat(_)
BitsNat(b) == IF b = <<>> THEN 0 ELSE 2 * BitsNat(SubSeq(b, 1, Len(b) - 1)) + b[Len(b)]

Zeros(n) == [k \in 1..n |-> 0]

\* bits + 1, same length; all ones wraps to all zeros
IncBits(b) ==
  LET zs == {k \in 1..Len(b) : b[k] = 0} IN
  IF zs = {} THEN Zeros(Len(b))
  ELSE LET last == CHOOSE k \in zs : \A j \in zs : j <= k
       IN  [k \in 1..Len(b) |-> IF k < last THEN b[k] ELSE IF k = last THEN 1 ELSE 0]

\* the double nearest to bits * 2^e (bits starts with a 1), ties to even
RoundNearestEven(bits, e) ==
  LET L == Len(bits) IN
  IF L <= 53 THEN [m |-> bits \o Zeros(53 - L), e |-> e - (53 - L)]
  ELSE
    LET keep   == SubSeq(bits, 1, 53)
        guard  == bits[54]
        sticky == \E k \in 55..L : bits[k] = 1
        up     == guard = 1 /\ (sticky \/ keep[53] = 1)
        inc    == IncBits(keep)
    IN
    IF ~up THEN [m |-> keep, e |-> e + (L - 53)]
    ELSE IF inc[1] = 1 THEN [m |-> inc, e |-> e + (L - 53)]
    ELSE [m |-> <<1>> \o Zeros(52), e |-> e + (L - 53) + 1]

\* long division r/d, eight binary digits a step, until at least 54
\* significant digits are out; one more digit says whether anything non-zero
\* follows
RECURSIVE DivDigits(_, _, _, _)
DivDigits(r, d, acc, e) ==
  IF Len(acc) >= 54
  THEN [bits |-> Append(acc, IF r = 0 THEN 0 ELSE 1), e |-> e - 1]
  ELSE LET q == (r * 256) \div d IN
       DivDigits((r * 256) % d, d,
                 IF acc = <<>> THEN NatBits(q) ELSE acc \o PadBits(q, 8), e - 8)

\* (n as f64) / (d as f64) for u32 n and d > 0
F64Div(n, d) ==
  IF n = 0 THEN F64Zero
  ELSE LET q == DivDigits(n % d, d, NatBits(n \div d), 0)
       IN  RoundNearestEven(q.bits, q.e)

\* bits * t + carry, eight binary digits a step from the least significant end
RECURSIVE MulBits(_, _, _)
MulBits(b, t, carry) ==
  IF Len(b) <= 8 THEN NatBits(t * BitsNat(b) + carry)
  ELSE LET v == t * BitsNat(SubSeq(b, Len(b) - 7, Len(b))) + carry
       IN  MulBits(SubSeq(b, 1, Len(b) - 8), t, v \div 256) \o PadBits(v % 256, 8)

\* (t as f64) * x for a u32 t
F64MulU32(t, x) ==
  IF t = 0 \/ x.m = <<>> THEN F64Zero
  ELSE RoundNearestEven(MulBits(x.m, t, 0), x.e)

\* x as u32: toward zero.  (The cast saturates at u32::MAX; an integer part
\* of more than 31 bits is outside what the bounds of the model reach.)
F64AsU32(x) ==
  CASE x.m = <<>> -> 0
    [] x.m # <<>> /\ 53 + x.e <= 0 -> 0
    [] x.m # <<>> /\ 53 + x.e > 0 /\ 53 + x.e <= 31 -> BitsNat(SubSeq(x.m, 1, 53 + x.e))

(***************************************************************************)
(* The controller's arithmetic (lines 97-108).                             *)
(***************************************************************************)
\* lines 98-105: the neighbouring keypoints
Neighbours(fan_curve, temp) ==
  IF Len(fan_curve) = 1 THEN <<fan_curve[1], <<100, 100>>>>
  ELSE
    LET hits == {k \in 1..(Len(fan_curve) - 1) :
                   fan_curve[k][1] < temp /\ fan_curve[k + 1][1] > temp}
    IN  IF hits = {} THEN <<(<<0, 0>>), <<100, 100>>>>
        ELSE LET k == CHOOSE k \in hits : \A j \in hits : k <= j
             IN  <<fan_curve[k], fan_curve[k + 1]>>

\* line 107
Slope(pre, post) == F64Div(post[2] + pre[2], post[1] + pre[1])

\* line 108
FanDuty(fan_curve, temp) ==
  LET n == Neighbours(fan_curve, temp)
  IN  F64AsU32(F64MulU32(temp, Slope(n[1], n[2])))

(***************************************************************************)
(* The --fan-curve texts the command line is given.                        *)
(***************************************************************************)
DigitChar(k) == <<"0", "1", "2", "3", "4", "5", "6", "7", "8", "9">>[k + 1]

RECURSIVE Dec(_)
Dec(n) == IF n < 10 THEN <<DigitChar(n)>> ELSE Append(Dec(n \div 10), DigitChar(n % 10))

PointText(t, d) == <<"(">> \o Dec(t) \o <<":">> \o Dec(d) \o <<")">>

GoodItems == {PointText(t, d) : t \in {0, 50, 100}, d \in {30, 70}}

BadItems ==
  { PointText(101, 30), PointText(50, 101),
    <<"(", ":", "5", "0", ")">>, <<"(", "5", "0", ":", ")">>,
    <<"(", "4", "2", "9", "4", "9", "6", "7", "2", "9", "6", ":", "3", "0", ")">> }

Items == GoodItems \cup BadItems

RECURSIVE Join(_, _, _)
Join(items, sep, trail) ==
  IF items = <<>> THEN <<>>
  ELSE IF Len(items) = 1 THEN items[1] \o trail
  ELSE items[1] \o sep \o Join(Tail(items), sep, trail)

\* comma-separated, comma-separated with a trailing comma, and run together
Punctuation == {<<(<<",">>), <<>>>>, <<(<<",">>), <<",">>>>, <<(<<>>), <<>>>>}

Inputs ==
  {Join(its, p[1], p[2]) :
     its \in UNION {[1..n -> Items] : n \in 0..MaxPoints}, p \in Punctuation}

\* the texts the whole program is run on
MainInputs ==
  { <<>>,
    PointText(0, 30),
    PointText(50, 70),
    Join(<<PointText(100, 30), PointText(50, 30)>>, <<",">>, <<>>),
    <<"(", ":", "5", "0", ")">> }

\* the temperatures the sensor reports to the whole program
SensorTemps == {t \in 0..MaxTemp : t % 10 = 0}

(***************************************************************************)
(* State.                                                                  *)
(***************************************************************************)
VARIABLES
  pc,             \* where main is
  given,          \* args.fan_curve is Some
  text,           \* the --fan-curve argument
  i,              \* parse_fan_curve's i: the input not yet consumed
  curve,          \* parse_fan_curve's curve, then args.fan_curve
  supplied,       \* which of --tdp, --mclk-offset, --gclk-offset are given
  tdp,            \* args.tdp when given, a u32
  mclk_offset,    \* args.mclk_offset when given, an i32
  gclk_offset,    \* args.gclk_offset when given, an i32
  runningAs,      \* sudo::check()
  logfile,        \* who created the log file: "absent", "user" or "root"
  logOpeners,     \* what sudo::check() was in the processes that opened it for write
  initOk,         \* nvmlInit_v2 returned 0
  shutdownCalls,  \* calls of nvmlShutdown
  setterCalls,    \* calls of each one-shot setter
  passed,         \* the value each one-shot setter was last called with
  setterRc,       \* what each one-shot setter last returned
  handler,        \* the Ctrl+C handler is installed
  rxAlive,        \* the channel's receiver has not been dropped
  chan,           \* messages waiting in the channel
  sent,           \* Ctrl+C signals delivered to the handler
  handlerPanics,  \* handler runs whose tx.send(()).unwrap() panicked
  iter,           \* iterations of the loop begun
  temp,           \* the loop's temp
  readRc,         \* what nvmlDeviceGetTemperature returned in this iteration
  duty,           \* the loop's duty
  fanCalls,       \* calls of nvmlDeviceSetFanSpeed_v2
  wrote,          \* nvmlDeviceSetFanSpeed_v2 was called in this iteration
  writeRc,        \* what nvmlDeviceSetFanSpeed_v2 returned in this iteration
  prevFailed,     \* the iteration before this one had a non-zero code from either call
  lateWrites      \* calls of nvmlDeviceSetFanSpeed_v2 made after a Ctrl+C reached the handler

vars == <<pc, given, text, i, curve, supplied, tdp, mclk_offset, gclk_offset,
          runningAs, logfile, logOpeners, initOk,
          shutdownCalls, setterCalls, passed, setterRc, handler, rxAlive, chan, sent,
          handlerPanics, iter, temp, readRc, duty, fanCalls, wrote, writeRc, prevFailed,
          lateWrites>>

argVars    == <<given, text, supplied, tdp, mclk_offset, gclk_offset>>
parseVars  == <<i, curve>>
procVars   == <<runningAs, logfile, logOpeners>>
nvmlVars   == <<initOk, shutdownCalls, setterCalls, passed, setterRc>>
bridgeVars == <<handler, rxAlive, chan, sent, handlerPanics>>
loopVars   == <<iter, temp, readRc, duty, fanCalls, wrote, writeRc, prevFailed, lateWrites>>

\* driver return codes: 0 is success, 1 stands for every non-zero code
ReturnCodes == {0, 1}

Setters == {"tdp", "mclk", "gclk"}

\* --tdp in watts: an everyday cap, and the least whose milliwatts leave u32
TdpValues == {250, 4294968}

\* --mclk-offset: an everyday offset, and the least whose double leaves i32
MclkValues == {1000, 1073741824}

\* --gclk-offset
GclkValues == {150}

StartState ==
  /\ pc = "args"
  /\ i = <<>>
  /\ curve = <<>>
  /\ logOpeners = {}
  /\ initOk = FALSE
  /\ shutdownCalls = 0
  /\ setterCalls = [s \in Setters |-> 0]
  /\ passed = [tdp |-> [hi |-> 0, lo |-> 0], mclk |-> 0, gclk |-> 0]
  /\ setterRc = [s \in Setters |-> 0]
  /\ handler = FALSE
  /\ rxAlive = FALSE
  /\ chan = 0
  /\ sent = 0
  /\ handlerPanics = 0
  /\ iter = 0
  /\ temp = 0
  /\ readRc = 0
  /\ duty = 0
  /\ fanCalls = 0
  /\ wrote = FALSE
  /\ writeRc = 0
  /\ prevFailed = FALSE
  /\ lateWrites = 0

Init ==
  /\ StartState
  /\ given \in BOOLEAN
  /\ text \in MainInputs
  /\ (~given => text = <<>>)
  /\ supplied \in SUBSET Setters
  /\ tdp \in IF "tdp" \in supplied THEN TdpValues ELSE {0}
  /\ mclk_offset \in IF "mclk" \in supplied THEN MclkValues ELSE {0}
  /\ gclk_offset \in IF "gclk" \in supplied THEN GclkValues ELSE {0}
  /\ runningAs \in {"User", "Root", "Suid"}
  /\ logfile \in {"absent", "user", "root"}

\* the parser alone, on every text of Inputs
InitParse ==
  /\ StartState
  /\ given = TRUE
  /\ text \in Inputs
  /\ supplied = {}
  /\ tdp = 0
  /\ mclk_offset = 0
  /\ gclk_offset = 0
  /\ runningAs = "Root"
  /\ logfile = "root"

(***************************************************************************)
(* Args::parse() (line 13): clap runs parse_fan_curve on --fan-curve.      *)
(***************************************************************************)
ArgsNoCurve ==
  /\ pc = "args" /\ ~given
  /\ pc' = "logfile"
  /\ UNCHANGED <<argVars, parseVars, procVars, nvmlVars, bridgeVars, loopVars>>

\* lines 188-189
ArgsCurve ==
  /\ pc = "args" /\ given
  /\ pc' = "parse"
  /\ i' = text
  /\ curve' = <<>>
  /\ UNCHANGED <<argVars, procVars, nvmlVars, bridgeVars, loopVars>>

\* one turn of the while-let loop (lines 191-201): a point is taken, the
\* unwrap panics, or the loop ends at the first thing that is not a point
ParsePoint ==
  /\ pc = "parse"
  /\ LET r == AltPair(i) IN
       /\ pc' = CASE r.kind = "Ok" -> "parse"
                  [] r.kind = "Panic" -> "panicked"
                  [] r.kind = "Error" -> "canon"
       /\ i' = IF r.kind = "Ok" THEN r.rest ELSE i
       /\ curve' = IF r.kind = "Ok" THEN PushPoint(curve, r.point) ELSE curve
  /\ UNCHANGED <<argVars, procVars, nvmlVars, bridgeVars, loopVars>>

\* lines 203-219: the empty curve is an error (clap exits with a usage error),
\* any other is sorted and anchored
ParseEnd ==
  /\ pc = "canon"
  /\ IF curve = <<>>
     THEN pc' = "usage" /\ curve' = curve
     ELSE pc' = "logfile" /\ curve' = Canonical(curve)
  /\ UNCHANGED <<argVars, i, procVars, nvmlVars, bridgeVars, loopVars>>

ParseNext == ArgsCurve \/ ParsePoint \/ ParseEnd

SpecParse == InitParse /\ [][ParseNext]_vars

(***************************************************************************)
(* main, lines 21-56: the log file, the privilege gate, the NVML session.  *)
(***************************************************************************)
\* lines 21-27: a user creates (or truncates) the file, which may fail; any
\* other opens it without the create flag, which fails when it is absent
OpenLog ==
  /\ pc = "logfile"
  /\ \/ /\ runningAs = "User"
        /\ pc' = "escalate"
        /\ logfile' = IF logfile = "absent" THEN "user" ELSE logfile
        /\ logOpeners' = logOpeners \cup {runningAs}
     \/ /\ runningAs = "User"
        /\ pc' = "failed"
        /\ UNCHANGED <<logfile, logOpeners>>
     \/ /\ runningAs # "User" /\ logfile # "absent"
        /\ pc' = "escalate"
        /\ logOpeners' = logOpeners \cup {runningAs}
        /\ UNCHANGED logfile
     \/ /\ runningAs # "User" /\ logfile = "absent"
        /\ pc' = "failed"
        /\ UNCHANGED <<logfile, logOpeners>>
  /\ UNCHANGED <<argVars, parseVars, runningAs, nvmlVars, bridgeVars, loopVars>>

\* line 38, sudo::escalate_if_needed: root goes on, a set-uid binary becomes
\* root, a user's process runs the same command line under sudo (main starts
\* again as root and this process only waits for it), or that fails
Escalate ==
  /\ pc = "escalate"
  /\ \/ /\ runningAs # "User"
        /\ pc' = "load"
        /\ runningAs' = "Root"
     \/ /\ runningAs = "User"
        /\ pc' = "args"
        /\ runningAs' = "Root"
     \/ /\ runningAs = "User"
        /\ pc' \in {"failed", "exited"}
        /\ UNCHANGED runningAs
  /\ UNCHANGED <<argVars, parseVars, logfile, logOpeners, nvmlVars, bridgeVars, loopVars>>

\* line 40
LoadLib ==
  /\ pc = "load"
  /\ pc' \in {"init", "failed"}
  /\ UNCHANGED <<argVars, parseVars, procVars, nvmlVars, bridgeVars, loopVars>>

\* lines 43-46
NvmlInit ==
  /\ pc = "init"
  /\ \E rc \in ReturnCodes :
       /\ pc' = IF rc = 0 THEN "device" ELSE "failed"
       /\ initOk' = (rc = 0)
  /\ UNCHANGED <<argVars, parseVars, procVars, shutdownCalls, setterCalls, passed, setterRc,
                 bridgeVars, loopVars>>

\* lines 48-56
GetHandle ==
  /\ pc = "device"
  /\ \E rc \in ReturnCodes : pc' = IF rc = 0 THEN "tdp" ELSE "failed"
  /\ UNCHANGED <<argVars, parseVars, procVars, nvmlVars, bridgeVars, loopVars>>

(***************************************************************************)
(* Lines 58-77: the one-shot setters.  The argument is computed in the     *)
(* integer type of the option: tdp * 1000 in u32 (line 59), mem_clock * 2  *)
(* in i32 (line 66), gfx_clock as it is (line 73).  A product that leaves  *)
(* the type panics in a build with overflow checks and wraps in one        *)
(* without.  Whatever the driver returns is logged and main goes on.       *)
(***************************************************************************)
\* w * 1000 as hi * 100000 + lo
Mul1000(w) == [hi |-> w \div 100, lo |-> (w % 100) * 1000]

\* hi * 100000 + lo modulo 2^32 = 42949 * 100000 + 67296
WrapU32(hi, lo) ==
  LET q0 == hi \div 42950
      l1 == lo - q0 * 67296
      h1 == hi - q0 * 42949 + l1 \div 100000
      l2 == l1 % 100000
      l3 == l2 - 67296
  IN  IF U32Fits(h1, l2) THEN [hi |-> h1, lo |-> l2]
      ELSE [hi |-> h1 - 42949 + l3 \div 100000, lo |-> l3 % 100000]

\* tdp * 1000: what is passed, or a panic
TdpOutcomes(w) ==
  LET p == Mul1000(w) IN
  IF U32Fits(p.hi, p.lo) THEN {[panic |-> FALSE, val |-> p]}
  ELSE {[panic |-> TRUE, val |-> p], [panic |-> FALSE, val |-> WrapU32(p.hi, p.lo)]}

\* m * 2 leaves i32 above 2^30 - 1 and below -2^30
I32DoubleFits(m) == m >= -1073741824 /\ m <= 1073741823

\* m * 2 modulo 2^32, as an i32
WrapDoubleI32(m) ==
  IF m > 0 THEN (m - 1073741824) * 2 - 2147483647 - 1
  ELSE ((m + 1073741824) * 2 + 2147483647) + 1

\* mem_clock * 2: what is passed, or a panic
MclkOutcomes(m) ==
  IF I32DoubleFits(m) THEN {[panic |-> FALSE, val |-> m * 2]}
  ELSE {[panic |-> TRUE, val |-> 0], [panic |-> FALSE, val |-> WrapDoubleI32(m)]}

GclkOutcomes(g) == {[panic |-> FALSE, val |-> g]}

OneShot(at, s, next, outcomes) ==
  /\ pc = at
  /\ IF s \notin supplied
     THEN pc' = next /\ UNCHANGED <<setterCalls, passed, setterRc>>
     ELSE \E o \in outcomes, rc \in ReturnCodes :
            IF o.panic
            THEN pc' = "panicked" /\ UNCHANGED <<setterCalls, passed, setterRc>>
            ELSE /\ pc' = next
                 /\ setterCalls' = [setterCalls EXCEPT ![s] = @ + 1]
                 /\ passed' = [passed EXCEPT ![s] = o.val]
                 /\ setterRc' = [setterRc EXCEPT ![s] = rc]
  /\ UNCHANGED <<argVars, parseVars, procVars, initOk, shutdownCalls, bridgeVars, loopVars>>

SetTdp == OneShot("tdp", "tdp", "mclk", TdpOutcomes(tdp))

SetMclk == OneShot("mclk", "mclk", "gclk", MclkOutcomes(mclk_offset))

SetGclk == OneShot("gclk", "gclk", "fan", GclkOutcomes(gclk_offset))

(***************************************************************************)
(* Lines 79-117: the Ctrl+C bridge and the controller loop.                *)
(***************************************************************************)
\* line 79 with no --fan-curve
NoFanCurve ==
  /\ pc = "fan" /\ ~given
  /\ pc' = "shutdown"
  /\ UNCHANGED <<argVars, parseVars, procVars, nvmlVars, bridgeVars, loopVars>>

\* lines 80-81: the channel and the handler; set_handler's error is returned
InstallHandler ==
  /\ pc = "fan" /\ given
  /\ \/ /\ pc' = "single"
        /\ handler' = TRUE
        /\ rxAlive' = TRUE
     \/ /\ pc' = "failed"
        /\ UNCHANGED <<handler, rxAlive>>
  /\ UNCHANGED <<argVars, parseVars, procVars, nvmlVars, chan, sent, handlerPanics, loopVars>>

\* line 83: a lone point above 0 degrees is refused and the block ends, which
\* drops rx
SinglePoint ==
  /\ pc = "single"
  /\ IF Len(curve) = 1 /\ curve[1][1] > 0
     THEN pc' = "shutdown" /\ rxAlive' = FALSE /\ chan' = 0
     ELSE pc' = "recv" /\ UNCHANGED <<rxAlive, chan>>
  /\ UNCHANGED <<argVars, parseVars, procVars, nvmlVars, handler, sent, handlerPanics, loopVars>>

\* a loop whose check never sees the message (what C12 rules out)
LoopCheckIgnoresMessage ==
  /\ pc = "recv"
  /\ iter < MaxIter
  /\ pc' = "read"
  /\ iter' = iter + 1
  /\ temp' = 0
  /\ readRc' = 0
  /\ duty' = 0
  /\ wrote' = FALSE
  /\ writeRc' = 0
  /\ prevFailed' = (readRc # 0 \/ writeRc # 0)
  /\ UNCHANGED <<rxAlive, chan, fanCalls, lateWrites>>
  /\ UNCHANGED <<argVars, parseVars, procVars, nvmlVars, handler, sent, handlerPanics>>

\* lines 87-91: try_recv takes a waiting message and the loop is left (rx is
\* dropped with the block); with none waiting an iteration begins
LoopCheck ==
  /\ pc = "recv"
  /\ \/ /\ chan > 0
        /\ pc' = "shutdown"
        /\ rxAlive' = FALSE
        /\ chan' = 0
        /\ UNCHANGED loopVars
     \/ /\ chan = 0
        /\ iter < MaxIter
        /\ pc' = "read"
        /\ iter' = iter + 1
        /\ temp' = 0
        /\ readRc' = 0
        /\ duty' = 0
        /\ wrote' = FALSE
        /\ writeRc' = 0
        /\ prevFailed' = (readRc # 0 \/ writeRc # 0)
        /\ UNCHANGED <<rxAlive, chan, fanCalls, lateWrites>>
  /\ UNCHANGED <<argVars, parseVars, procVars, nvmlVars, handler, sent, handlerPanics>>

\* a read whose failure ends main (what C14 rules out)
ReadTempBails ==
  /\ pc = "read"
  /\ \E rc \in ReturnCodes, t \in SensorTemps :
       /\ readRc' = rc
       /\ temp' = IF rc = 0 THEN t ELSE temp
       /\ pc' = IF rc = 0 THEN "fan_speed" ELSE "failed"
  /\ UNCHANGED <<argVars, parseVars, procVars, nvmlVars, bridgeVars, iter, duty, fanCalls, wrote,
                 writeRc, prevFailed, lateWrites>>

\* lines 92-95: the driver writes temp on success; a failure is logged and
\* the iteration goes on with temp still 0
ReadTemp ==
  /\ pc = "read"
  /\ \E rc \in ReturnCodes, t \in SensorTemps :
       /\ readRc' = rc
       /\ temp' = IF rc = 0 THEN t ELSE temp
  /\ pc' = "fan_speed"
  /\ UNCHANGED <<argVars, parseVars, procVars, nvmlVars, bridgeVars, iter, duty, fanCalls, wrote,
                 writeRc, prevFailed, lateWrites>>

\* lines 97-112: the duty is computed and written; the driver's answer is
\* logged
SetFanSpeed ==
  /\ pc = "fan_speed"
  /\ duty' = FanDuty(curve, temp)
  /\ fanCalls' = fanCalls + 1
  /\ wrote' = TRUE
  /\ \E rc \in ReturnCodes : writeRc' = rc
  /\ lateWrites' = IF sent > 0 THEN lateWrites + 1 ELSE lateWrites
  /\ pc' = "sleep"
  /\ UNCHANGED <<argVars, parseVars, procVars, nvmlVars, bridgeVars, iter, temp, readRc, prevFailed>>

\* line 114
Sleep ==
  /\ pc = "sleep"
  /\ pc' = "recv"
  /\ UNCHANGED <<argVars, parseVars, procVars, nvmlVars, bridgeVars, loopVars>>

\* a shutdown that first puts the fan back (what C13 rules out)
ShutdownResetsFan ==
  /\ pc = "shutdown"
  /\ shutdownCalls' = shutdownCalls + 1
  /\ fanCalls' = fanCalls + 1
  /\ duty' = 0
  /\ pc' = "done"
  /\ UNCHANGED <<argVars, parseVars, procVars, initOk, setterCalls, passed, setterRc,
                 bridgeVars, iter, temp, readRc, wrote, writeRc, prevFailed, lateWrites>>

\* lines 119-123
Shutdown ==
  /\ pc = "shutdown"
  /\ shutdownCalls' = shutdownCalls + 1
  /\ pc' = "done"
  /\ UNCHANGED <<argVars, parseVars, procVars, initOk, setterCalls, passed, setterRc,
                 bridgeVars, loopVars>>

\* main has returned, clap has exited, the privilege gate has ended the
\* process, or main has panicked
Ended == pc \in {"done", "failed", "usage", "panicked", "exited"}

\* a handler whose message never reaches the channel (what C19 rules out)
InterruptLosesMessage ==
  /\ handler /\ ~Ended
  /\ sent < MaxInterrupts
  /\ sent' = sent + 1
  /\ UNCHANGED <<chan, handlerPanics>>
  /\ UNCHANGED <<pc, argVars, parseVars, procVars, nvmlVars, handler, rxAlive, loopVars>>

\* line 81, the handler: tx.send(()).unwrap() on every Ctrl+C once it is
\* installed; send fails, and the unwrap panics in the handler's thread, when
\* rx has been dropped
Interrupt ==
  /\ handler /\ ~Ended
  /\ sent < MaxInterrupts
  /\ sent' = sent + 1
  /\ IF rxAlive
     THEN chan' = chan + 1 /\ UNCHANGED handlerPanics
     ELSE handlerPanics' = handlerPanics + 1 /\ UNCHANGED chan
  /\ UNCHANGED <<pc, argVars, parseVars, procVars, nvmlVars, handler, rxAlive, loopVars>>

Next ==
  \/ ArgsNoCurve \/ ArgsCurve \/ ParsePoint \/ ParseEnd
  \/ OpenLog \/ Escalate \/ LoadLib \/ NvmlInit \/ GetHandle
  \/ SetTdp \/ SetMclk \/ SetGclk
  \/ NoFanCurve \/ InstallHandler \/ SinglePoint
  \/ LoopCheck \/ ReadTemp \/ SetFanSpeed \/ Sleep
  \/ Shutdown \/ Interrupt

Spec == Init /\ [][Next]_vars

(***************************************************************************)
(* What the claims speak of.                                               *)
(***************************************************************************)
\* parse_fan_curve has returned Ok: clap has stored the curve in args
Parsed ==
  /\ given
  /\ \/ pc \notin {"args", "parse", "canon", "usage", "panicked"}
     \/ pc = "panicked" /\ initOk

\* an unwrap of parse_pair has panicked (main's own panics come after nvmlInit_v2)
ParserPanicked == pc = "panicked" /\ ~initOk

\* the point written at the head of s, "(" uint ":" uint ")" with uint one
\* or more digits: its two numerals as u32, or ok = FALSE
PointAtHead(s) ==
  LET none == [ok |-> FALSE, temp |-> ParseU32(<<>>), duty |-> ParseU32(<<>>)] IN
  IF ~StartsWith(s, "(") THEN none
  ELSE
    LET nT == TakeWhileDigit(Tail(s))
        s2 == Drop(s, 1 + nT)
    IN
    IF nT = 0 \/ ~StartsWith(s2, ":") THEN none
    ELSE
      LET nD == TakeWhileDigit(Tail(s2))
          s4 == Drop(s2, 1 + nD)
      IN
      IF nD = 0 \/ ~StartsWith(s4, ")") THEN none
      ELSE [ok   |-> TRUE,
            temp |-> ParseU32(SubSeq(s, 2, 1 + nT)),
            duty |-> ParseU32(SubSeq(s2, 2, 1 + nD))]

\* the places of s where a point with both numbers in [0, 100] is written
ValidPointPlaces(s) ==
  {p \in 1..Len(s) :
     LET pt == PointAtHead(Drop(s, p - 1)) IN
       /\ pt.ok /\ pt.temp.ok /\ pt.duty.ok
       /\ ~Over100(pt.temp) /\ ~Over100(pt.duty)}

PointAt(s, p) ==
  LET pt == PointAtHead(Drop(s, p - 1)) IN <<pt.temp.lo, pt.duty.lo>>

\* s holds a point whose temp or duty is a u32 above 100
HoldsPointOver100(s) ==
  \E p \in 1..Len(s) :
    LET pt == PointAtHead(Drop(s, p - 1)) IN
      /\ pt.ok /\ pt.temp.ok /\ pt.duty.ok
      /\ (Over100(pt.temp) \/ Over100(pt.duty))

MaxOf(S) == CHOOSE x \in S : \A y \in S : y <= x

\* two-point linear interpolation between keypoints p0 and p1 at t, rounded
\* toward zero (spec 4.4 step 4)
Interpolate(p0, p1, t) ==
  (p0[2] * (p1[1] - p0[1]) + (t - p0[1]) * (p1[2] - p0[2])) \div (p1[1] - p0[1])

\* this iteration read the temperature and wrote the fan
ReadAndWrote == wrote /\ readRc = 0

(***************************************************************************)
(* C1: whenever main returns after nvmlInit_v2 returned 0, nvmlShutdown    *)
(* has been called.  Violated: the bail! of a failed                       *)
(* nvmlDeviceGetHandleByIndex_v2 and the ? of a failed set_handler return  *)
(* without it.                                                             *)
(***************************************************************************)
C1_ShutdownOnEveryExit ==
  (pc \in {"done", "failed"} /\ initOk) => shutdownCalls >= 1

(***************************************************************************)
(* C2: in an iteration whose nvmlDeviceGetTemperature returned non-zero,   *)
(* nvmlDeviceSetFanSpeed_v2 is not called.  Violated: the match only logs  *)
(* and the iteration goes on to write the duty computed from temp = 0.     *)
(***************************************************************************)
C2_NoWriteAfterFailedRead == readRc # 0 => ~wrote

(***************************************************************************)
(* C3: the duty passed to nvmlDeviceSetFanSpeed_v2 is in [0, 100].         *)
(* Violated: nothing clamps temp * slope.                                  *)
(***************************************************************************)
C3_DutyInRange == wrote => duty \in 0..100

(***************************************************************************)
(* C4: when the sensor reports the temperature T of a keypoint (T, D), the *)
(* duty written is D.  Violated: the window search is strict on both       *)
(* sides, so a keypoint's own temperature falls to ((0, 0), (100, 100)).   *)
(***************************************************************************)
C4_OnCurveIdentity ==
  ReadAndWrote =>
    \A k \in 1..Len(curve) : curve[k][1] = temp => duty = curve[k][2]

(***************************************************************************)
(* C5: for a temperature t in [0, 100) the duty written is the two-point   *)
(* linear interpolation over the adjacent keypoints p0.temp <= t < p1.temp,*)
(* rounded toward zero.  Violated: the code multiplies t by                *)
(* (duty_post + duty_pre) / (temp_post + temp_pre).                        *)
(***************************************************************************)
C5_LinearInterpolation ==
  (ReadAndWrote /\ temp < 100) =>
    \A k \in 1..(Len(curve) - 1) :
      (curve[k][1] <= temp /\ temp < curve[k + 1][1]) =>
        duty = Interpolate(curve[k], curve[k + 1], temp)

(***************************************************************************)
(* C6: for a reported temperature t >= 100 the duty written is the duty of *)
(* the curve's last keypoint.  Violated: no window holds t, and the        *)
(* fallback ((0, 0), (100, 100)) gives duty = t.                           *)
(***************************************************************************)
C6_SaturatesAtLastKeypoint ==
  (ReadAndWrote /\ temp >= 100) => duty = curve[Len(curve)][2]

(***************************************************************************)
(* C7: on a segment (T0, D0), (T1, D1) with D0 <= D1, the duty computed at *)
(* a is at most the duty computed at b for T0 <= a <= b <= T1.  Here b is  *)
(* the temperature of this iteration.  Violated at the segment's ends,     *)
(* where the fallback's duty = t takes over.                               *)
(***************************************************************************)
C7_MonotoneWithinSegment ==
  ReadAndWrote =>
    \A k \in 1..(Len(curve) - 1) :
      (curve[k][2] <= curve[k + 1][2] /\ curve[k][1] <= temp /\ temp <= curve[k + 1][1]) =>
        \A a \in curve[k][1]..temp : FanDuty(curve, a) <= duty

(***************************************************************************)
(* C8: a curve parse_fan_curve returns is non-empty, strictly increasing   *)
(* in temp, starts at temp 0, ends at temp 100, and has every temp and     *)
(* duty in [0, 100].                                                       *)
(***************************************************************************)
C8_CanonicalCurve ==
  Parsed =>
    /\ Len(curve) >= 1
    /\ \A k \in 1..(Len(curve) - 1) : curve[k][1] < curve[k + 1][1]
    /\ curve[1][1] = 0
    /\ curve[Len(curve)][1] = 100
    /\ \A k \in 1..Len(curve) : curve[k][1] \in 0..100 /\ curve[k][2] \in 0..100

\* "(100:70),(50:30),(50:70)": out of order, a repeated temp, no point at 0
C8_Witness ==
  /\ Parsed
  /\ text = Join(<<PointText(100, 70), PointText(50, 30), PointText(50, 70)>>, <<",">>, <<>>)
  /\ curve = <<(<<0, 0>>), <<50, 70>>, <<100, 70>>>>

(***************************************************************************)
(* C9: when several points of an accepted text share a temperature T, the  *)
(* curve has exactly one keypoint at T and its duty is the largest of the  *)
(* duties written for T.  Violated through C10's defect: the loop stops at *)
(* the first point it refuses, the text is accepted all the same, and the  *)
(* points after that one never reach the curve.                            *)
(***************************************************************************)
C9_DedupMaxWins ==
  Parsed =>
    \A p \in ValidPointPlaces(text) :
      LET T    == PointAt(text, p)[1]
          same == {q \in ValidPointPlaces(text) : PointAt(text, q)[1] = T}
      IN  Cardinality(same) >= 2 =>
            /\ Cardinality({k \in 1..Len(curve) : curve[k][1] = T}) = 1
            /\ \A k \in 1..Len(curve) :
                 curve[k][1] = T => curve[k][2] = MaxOf({PointAt(text, q)[2] : q \in same})

(***************************************************************************)
(* C10: a text that holds a point with temp > 100 or duty > 100 is not     *)
(* accepted, wherever the point stands.  Violated: after a valid point the *)
(* out-of-range one only ends the loop and the curve so far is returned.   *)
(***************************************************************************)
C10_RejectsOutOfRange == HoldsPointOver100(text) => ~Parsed

(***************************************************************************)
(* C11: the privilege gate runs before the log file is created or opened   *)
(* for writing, so no process for which sudo::check() is User opens it.    *)
(* Violated: main opens the file at lines 21-27 and only then calls        *)
(* sudo::escalate_if_needed at line 38; the unprivileged parent has        *)
(* already run File::create.                                               *)
(***************************************************************************)
C11_GateBeforeLogfile == "User" \notin logOpeners

(***************************************************************************)
(* C12: once a Ctrl+C has reached the handler no iteration of the loop     *)
(* begins: the check at the top of the next iteration leaves the loop.     *)
(* The run then ends only by returning from main, with nvmlShutdown called *)
(* exactly once.                                                           *)
(***************************************************************************)
C12_InterruptEndsLoop ==
  /\ [][(pc = "recv" /\ pc' = "read") => sent = 0]_vars
  /\ [][(pc = "recv" /\ chan > 0 /\ pc' # pc) => pc' = "shutdown"]_vars
  /\ [](sent > 0 => shutdownCalls <= 1)
  /\ []((sent > 0 /\ Ended) => (pc = "done" /\ shutdownCalls = 1))

\* Ctrl+C after the first iteration began; main returned before a second
C12_Witness ==
  /\ pc = "done"
  /\ sent = 1 /\ handlerPanics = 0
  /\ iter = 1 /\ fanCalls = 1
  /\ shutdownCalls = 1

\* the loop was left at line 88 (or the block at line 84), which drops rx
LoopLeft == handler /\ ~rxAlive

(***************************************************************************)
(* C13: the step that sees the Ctrl+C at the top of an iteration reads no  *)
(* temperature and writes no duty, and after it main only calls            *)
(* nvmlShutdown, once, and returns: no iteration, no read, no fan write,   *)
(* no sleep, no setter, and the duty last written stays.                   *)
(***************************************************************************)
C13_NothingAfterInterruptSeen ==
  /\ [][(pc = "recv" /\ pc' = "shutdown") => UNCHANGED <<loopVars, nvmlVars>>]_vars
  /\ [][LoopLeft =>
          /\ pc \in {"shutdown", "done"} /\ pc' \in {"shutdown", "done"}
          /\ UNCHANGED <<loopVars, setterCalls, passed, setterRc, initOk>>
          /\ shutdownCalls' = IF pc' # pc THEN shutdownCalls + 1 ELSE shutdownCalls
          /\ shutdownCalls' <= 1]_vars

\* two whole iterations, then the Ctrl+C seen and main returned
C13_Witness ==
  /\ pc = "done" /\ LoopLeft
  /\ sent >= 1
  /\ iter = 2 /\ fanCalls = 2
  /\ shutdownCalls = 1

\* nvmlDeviceGetTemperature or nvmlDeviceSetFanSpeed_v2 returned non-zero in
\* this iteration
IterationFailed == readRc # 0 \/ writeRc # 0

(***************************************************************************)
(* C14: a non-zero code from nvmlDeviceGetTemperature or                   *)
(* nvmlDeviceSetFanSpeed_v2 does not end the loop: main goes from the      *)
(* failed read to the write, from the write to the sleep, from the sleep   *)
(* to the check, and from the check, with no Ctrl+C waiting, into another  *)
(* iteration, whose first step is the read.                                *)
(***************************************************************************)
C14_FailuresKeepLooping ==
  /\ [][(pc = "read" /\ pc' # pc /\ readRc' # 0) => pc' = "fan_speed"]_vars
  /\ [][(pc = "fan_speed" /\ pc' # pc /\ (readRc # 0 \/ writeRc' # 0)) => pc' = "sleep"]_vars
  /\ [][(pc = "sleep" /\ pc' # pc /\ IterationFailed) => pc' = "recv"]_vars
  /\ [][(pc = "recv" /\ pc' # pc /\ IterationFailed /\ chan = 0) =>
          (pc' = "read" /\ iter' = iter + 1)]_vars
  /\ []((IterationFailed /\ pc = "sleep") => ENABLED Sleep)
  /\ []((IterationFailed /\ pc = "recv" /\ chan = 0 /\ iter < MaxIter) => ENABLED LoopCheck)
  /\ [](pc = "read" => ENABLED ReadTemp)

\* the first iteration had a non-zero code, main slept, and with no Ctrl+C
\* the second iteration has begun and has read the temperature again
C14_Witness ==
  /\ prevFailed
  /\ iter = 2 /\ pc = "fan_speed"
  /\ readRc = 0 /\ temp > 0
  /\ fanCalls = 1
  /\ sent = 0

(***************************************************************************)
(* C15: every one-shot setter whose option is given is called exactly once *)
(* in a run that has the device handle, never more and never when its      *)
(* option is absent, and all of them have been called before the first     *)
(* temperature read or fan write.  Violated through C17's defect: with     *)
(* overflow checks tdp * 1000 (and likewise mem_clock * 2) panics before   *)
(* the call, and the setters after it and the loop never run.              *)
(***************************************************************************)
C15_SettersOnceBeforeLoop ==
  /\ \A s \in Setters : setterCalls[s] <= 1 /\ (setterCalls[s] = 1 => s \in supplied)
  /\ (iter > 0 \/ fanCalls > 0) => \A s \in supplied : setterCalls[s] = 1
  /\ (initOk /\ pc \in {"done", "panicked"}) => \A s \in supplied : setterCalls[s] = 1

(***************************************************************************)
(* C16: a Ctrl+C after the first changes nothing and never makes the       *)
(* handler fail.  Violated: once the loop is left rx is dropped (line      *)
(* 117), and a Ctrl+C that comes before the process ends, while            *)
(* nvmlShutdown runs, makes tx.send(()) return Err and the unwrap panic.   *)
(***************************************************************************)
C16_LaterInterruptsHarmless == handlerPanics = 0

(***************************************************************************)
(* C17: when --tdp is given, nvmlDeviceSetPowerManagementLimit is called   *)
(* with exactly tdp * 1000, and main does not panic instead of calling it. *)
(* Violated above 4294967 watts: the product is computed in u32.           *)
(***************************************************************************)
C17_MilliwattsExact ==
  /\ setterCalls["tdp"] = 1 => passed["tdp"] = Mul1000(tdp)
  /\ ~(pc = "panicked" /\ initOk /\ "tdp" \in supplied /\ setterCalls["tdp"] = 0)

\* s is one point and nothing else, both numbers u32 within [0, 100]
SinglePointText(s) ==
  LET pt == PointAtHead(s)
      nT == TakeWhileDigit(Tail(s))
      nD == TakeWhileDigit(Drop(s, 2 + nT))
  IN  /\ pt.ok /\ pt.temp.ok /\ pt.duty.ok
      /\ ~Over100(pt.temp) /\ ~Over100(pt.duty)
      /\ Len(s) = 3 + nT + nD

\* the texts of one valid point that the whole program is run on
SinglePointInputs == {s \in MainInputs : SinglePointText(s)}

(***************************************************************************)
(* C18: a --fan-curve of one valid point (T:D), T > 0 included, is         *)
(* accepted with a curve of at least two keypoints, so the refusal of line *)
(* 83 is never taken: main goes from line 83 into the loop, and the loop   *)
(* is only left by a Ctrl+C.                                               *)
(***************************************************************************)
C18_SinglePointAccepted ==
  /\ [](text \in SinglePointInputs => (pc # "usage" /\ ~ParserPanicked))
  /\ []((text \in SinglePointInputs /\ Parsed) => Len(curve) >= 2)
  /\ [][(text \in SinglePointInputs /\ pc = "single" /\ pc' # pc) => pc' = "recv"]_vars
  /\ []((text \in SinglePointInputs /\ LoopLeft) => sent > 0)

\* "(50:70)": the one point is above 0 degrees and the loop runs
C18_Witness ==
  /\ text = PointText(50, 70)
  /\ curve = <<(<<0, 0>>), <<50, 70>>, <<100, 100>>>>
  /\ pc = "sleep" /\ iter = 1

(***************************************************************************)
(* C19: after a Ctrl+C has reached the handler,                            *)
(* nvmlDeviceSetFanSpeed_v2 is called at most once more, whenever in the   *)
(* iteration the handler ran.                                              *)
(***************************************************************************)
C19_AtMostOneLateWrite == lateWrites <= 1

\* Ctrl+C between the read and the write of the second iteration; that
\* write was made, the check then left the loop
C19_Witness ==
  /\ lateWrites = 1
  /\ fanCalls = 2 /\ iter = 2
  /\ LoopLeft

(***************************************************************************)
(* C20: parse_fan_curve returns Ok or Err on every text and never panics.  *)
(* Violated: temp.parse::<u32>().unwrap() and duty.parse::<u32>().unwrap() *)
(* (lines 170, 177) panic on an empty digit run and on one above           *)
(* 4294967295.                                                             *)
(***************************************************************************)
C20_ParserNeverPanics == ~ParserPanicked

====
